---- MODULE Spec2Model ----
(***************************************************************************)
(* Model of MessageReviewBot (predlozhka_bot): submitters send content,    *)
(* choose a publish mode, the record enters messageQueue and the single    *)
(* administrator approves, rejects or skips the head.                      *)
(*                                                                         *)
(* Every Telegram call the code awaits is a suspension point: a handler    *)
(* runs from one await to the next in one step, and other handlers may run *)
(* in between (Telegraf dispatches the updates of one polling batch        *)
(* concurrently).  An awaited call either succeeds or throws.  An await    *)
(* that ends a handler without touching the state (the closing             *)
(* answerCbQuery, the plain-text notices of sendToAdmin) is taken together *)
(* with the step before it.                                                *)
(*                                                                         *)
(* Strings are sequences of atoms; the atoms "&", "<" and ">" are the      *)
(* characters escapeHTML rewrites.  Cyrillic literals of the source are    *)
(* transliterated ("Ot: " is the author prefix, "Predlozhka" the link      *)
(* text).                                                                  *)
(***************************************************************************)
EXTENDS Integers, Sequences, FiniteSets, TLC

\* ------------------------------------------------------------------ bounds
MaxInFlight == 2        \* handlers that may be suspended at the same time
MaxSubmissions == 2     \* content messages sent over a run
MaxFailures == 1        \* awaited Telegram calls that throw over a run

\* ------------------------------------------------------- identities, inputs
ADMIN_ID == 99
UserIds == {1, 2}
MsgIds == {1, 2}
Absent == <<>>          \* undefined / missing string

\* ctx.from of the two submitters of the workflow model
FromOf(u) ==
    IF u = 1 THEN [id |-> 1, first_name |-> <<"Bob">>, username |-> <<"bobby">>]
             ELSE [id |-> 2, first_name |-> <<"Alice">>, username |-> Absent]

\* an inbound content message: kind is the update type that matched
TextMessage(mid, body) ==
    [message_id |-> mid, kind |-> "text", text |-> body, caption |-> Absent]
MediaMessage(mid, kind, cap) ==
    [message_id |-> mid, kind |-> kind, text |-> Absent, caption |-> cap]

MediaKinds == {"photo", "video", "document", "audio"}
Choices == {"with_name", "anonymous", "cancel", "other"}
AdminTokens == {"admin_approve", "admin_reject", "admin_skip"}

\* ---------------------------------------------------------------- strings
BotUsername == "predlozhka_bot"

Replace(s, ch, rep) ==
    LET F[i \in 0..Len(s)] ==
            IF i = 0 THEN <<>>
            ELSE F[i - 1] \o (IF s[i] = ch THEN rep ELSE <<s[i]>>)
    IN F[Len(s)]

escapeHTML(text) ==
    Replace(Replace(Replace(text, "&", <<"&", "amp;">>),
                    "<", <<"&", "lt;">>),
            ">", <<"&", "gt;">>)

signature ==
    <<"\n\n", "<", "a href=\"https://t.me/", BotUsername, "\"", ">",
      "Predlozhka", "<", "/a", ">">>

\* ------------------------------------------------- extraction (stager)
NoMedia == [type |-> "none", fileId |-> "", caption |-> Absent]

getMessageText(message) ==
    IF message.kind = "text" THEN message.text ELSE message.caption

getMessageType(message) == message.kind

getMediaData(message) ==
    IF message.kind \in MediaKinds
    THEN [type |-> message.kind, fileId |-> "file", caption |-> message.caption]
    ELSE NoMedia

NoChoiceMessage == 0

TempMessage(user, message) ==
    [userId |-> user.id,
     userName |-> user.first_name,
     username |-> user.username,
     messageId |-> message.message_id,
     text |-> getMessageText(message),
     contentType |-> getMessageType(message),
     media |-> getMediaData(message),
     publishType |-> "pending",
     choiceMessageId |-> NoChoiceMessage]

FinalMessage_keepPending(tempMessage, choice) == tempMessage

FinalMessage(tempMessage, choice) ==
    [tempMessage EXCEPT !.publishType = choice]

\* keys of the pendingMessages map
TempKey(userId, messageId) == <<"temp", userId, messageId>>
ChoiceKey(messageId) == <<"choice", messageId>>
IndexKey(index) == <<"index", index>>

\* the originating key of a record
KeyOf(rec) == <<rec.userId, rec.messageId>>

\* ------------------------------------------------------------- publisher
authorInfo_noHandle(message) == <<"Ot: ">> \o message.userName

authorInfo(message) ==
    <<"Ot: ">> \o message.userName \o
        (IF message.username # Absent
         THEN <<" (@">> \o message.username \o <<")">>
         ELSE <<>>)

HasMedia(message) == message.media.type # "none"

\* finalCaption and finalText as composed from the user's choice
Composed(message) ==
    IF message.publishType = "with_name"
    THEN IF HasMedia(message)
         THEN [finalCaption |-> authorInfo(message) \o
                   (IF message.media.caption # Absent
                    THEN <<"\n\n">> \o message.media.caption ELSE <<>>),
               finalText |-> <<>>]
         ELSE IF message.text # Absent
              THEN [finalCaption |-> <<>>,
                    finalText |-> authorInfo(message) \o <<"\n\n">> \o message.text]
              ELSE [finalCaption |-> <<>>, finalText |-> <<>>]
    ELSE IF HasMedia(message) /\ message.media.caption # Absent
         THEN [finalCaption |-> message.media.caption, finalText |-> <<>>]
         ELSE IF message.text # Absent
              THEN [finalCaption |-> <<>>, finalText |-> message.text]
              ELSE [finalCaption |-> <<>>, finalText |-> <<>>]

\* the signature is added to the caption of a media post, else to the text
Signed(message) ==
    LET c == Composed(message)
    IN IF HasMedia(message)
       THEN [c EXCEPT !.finalCaption =
                IF @ # <<>> THEN @ \o signature ELSE signature]
       ELSE [c EXCEPT !.finalText =
                IF @ # <<>> THEN @ \o signature ELSE signature]

\* what publishToChannel hands to the channel send: the method and the body
ChannelPost(message) ==
    LET s == Signed(message)
    IN [key |-> KeyOf(message),
        method |-> IF HasMedia(message) THEN message.media.type ELSE "text",
        body |-> IF HasMedia(message)
                 THEN escapeHTML(s.finalCaption)
                 ELSE escapeHTML(s.finalText)]

\* publishToChannel awaits a send only for media or non-empty text
SendsToChannel(message) == HasMedia(message) \/ message.text # Absent

\* ------------------------------------------------------------------ state
VARIABLES
    currentMessageIndex,  \* BotState.currentMessageIndex
    pendingMessages,      \* BotState.pendingMessages: key -> PendingMessage
    messageQueue,         \* BotState.messageQueue
    channelId,            \* process.env.CHANNEL_ID: TRUE when configured
    handlers,             \* the handler invocations suspended at an await
    sent,                 \* keys of the content messages users have sent
    failures,             \* awaited Telegram calls that have thrown so far
    channel,              \* posts delivered to the destination channel
    presented,            \* per key: review posts delivered to the admin
    controls,             \* review posts (with buttons) not yet deleted
    resolved,             \* keys in the order their records were queued
    skipped,              \* history kept by the review-phase specification:
                          \* keys of the records a skip decision removed
    notices               \* history kept by the review-phase specification:
                          \* the status messages notifyUser has sent

vars == <<currentMessageIndex, pendingMessages, messageQueue, channelId,
          handlers, sent, failures, channel, presented, controls, resolved,
          skipped, notices>>

botState == <<currentMessageIndex, pendingMessages, messageQueue>>
env == <<channelId, sent>>
effects == <<channel, presented, controls>>
history == <<resolved, skipped, notices>>

Slots == 1..MaxInFlight
Keys == UserIds \X MsgIds

NoRec == [userId |-> 0, messageId |-> 0]
NoMsg == <<>>

\* a handler invocation: the update it handles (kind, from, mid, arg = the
\* choice or the admin token, msg = the review post whose button was
\* pressed), the await it is suspended at (pc), and its locals: cur is
\* tempMessage / finalMessage / currentMessage, shown is the record
\* sendMessageToAdmin is sending.  A local the handler no longer reads is
\* reset to its Idle value.
Idle == [kind |-> "idle", from |-> 0, mid |-> 0, arg |-> "", msg |-> NoMsg,
         pc |-> "idle", cur |-> NoRec, shown |-> NoRec]

\* content messages arrive in this order (message ids grow in each chat)
SubmissionOrder == <<<<1, 1>>, <<2, 1>>, <<1, 2>>, <<2, 2>>>>

\* the content message with id mid that submitter u sends
MessageOf(u, mid) ==
    IF mid = 1 THEN TextMessage(mid, <<"Hi">>)
               ELSE MediaMessage(mid, "photo", Absent)

\* map operations
Has(map, key) == key \in DOMAIN map
Set(map, key, value) ==
    [k \in DOMAIN map \cup {key} |-> IF k = key THEN value ELSE map[k]]
Delete_keepsStaging(map, key) ==
    IF key[1] = "temp" THEN map ELSE [k \in DOMAIN map \ {key} |-> map[k]]
Delete(map, key) == [k \in DOMAIN map \ {key} |-> map[k]]

\* Array.prototype.splice(index, 1)
Splice(queue, index) ==
    IF index + 1 \in 1..Len(queue)
    THEN SubSeq(queue, 1, index) \o SubSeq(queue, index + 2, Len(queue))
    ELSE queue

\* queue[index] of a 0-based array, NoRec when undefined
At(queue, index) ==
    IF index + 1 \in 1..Len(queue) THEN queue[index + 1] ELSE NoRec

isAdmin_anyone(fromId) == TRUE

isAdmin(fromId) == fromId = ADMIN_ID

FreeSlot(i) ==
    /\ handlers[i] = Idle
    /\ \A j \in Slots : j < i => handlers[j] # Idle

\* The suspended invocations form a multiset: the slots are kept ordered by
\* the await each handler is suspended at, the free slots last.
PcOrder ==
    <<"reply", "cancel_edit", "choice_edit", "present", "publish", "notify",
      "delete", "answer_no_message", "answer_not_found", "answer_denied",
      "answer", "answer_error", "idle">>
Rank(h) == CHOOSE n \in 1..Len(PcOrder) : PcOrder[n] = h.pc
Before(g, h) == Rank(g) < Rank(h)

\* the handler in slot i continues as h, or returns
Become(i, h) ==
    LET slots == [handlers EXCEPT ![i] = h]
    IN handlers' =
         IF \A j \in 1..(Len(slots) - 1) : ~Before(slots[j + 1], slots[j])
         THEN slots ELSE SortSeq(slots, Before)
Finish(i) == Become(i, Idle)

\* a handler of this kind suspended at pc that reads no local any more
Final(kind, pc) == [Idle EXCEPT !.kind = kind, !.pc = pc]

\* the catch block of a callback handler: answerCbQuery('error') is pending
Caught(h) == [Final(h.kind, "answer_error") EXCEPT !.arg = h.arg, !.cur = h.cur]

\* an awaited Telegram call returns, or throws
Returns == UNCHANGED failures
Throws == failures < MaxFailures /\ failures' = failures + 1

Init ==
    /\ currentMessageIndex = 0
    /\ pendingMessages = <<>>
    /\ messageQueue = <<>>
    /\ channelId \in BOOLEAN
    /\ handlers = [i \in Slots |-> Idle]
    /\ sent = {}
    /\ failures = 0
    /\ channel = <<>>
    /\ presented = [k \in Keys |-> 0]
    /\ controls = {}
    /\ resolved = <<>>
    /\ skipped = {}
    /\ notices = {}

\* ------------------------------------------------------ handleUserMessage
\* the synchronous start: the staged record is stored under the temp key
HandleUserMessage(i, u, message) ==
    LET tempMessage == TempMessage(FromOf(u), message)
    IN /\ FreeSlot(i)
       /\ Cardinality(sent) < MaxSubmissions
       /\ Cardinality(sent) < Len(SubmissionOrder)
       /\ <<u, message.message_id>> = SubmissionOrder[Cardinality(sent) + 1]
       /\ sent' = sent \cup {<<u, message.message_id>>}
       /\ pendingMessages' =
            Set(pendingMessages, TempKey(u, message.message_id), tempMessage)
       /\ Become(i, [Idle EXCEPT !.kind = "message", !.from = u,
                                 !.mid = message.message_id, !.pc = "reply",
                                 !.cur = tempMessage])
       /\ UNCHANGED <<currentMessageIndex, messageQueue, channelId, failures,
                      effects, history>>

ChoiceMessageIds == {7}

\* ctx.reply with the three choice buttons returned
ReplySent(i, choiceMessageId) ==
    LET h == handlers[i]
    IN /\ h.pc = "reply"
       /\ Returns
       /\ pendingMessages' = Set(pendingMessages, ChoiceKey(h.mid),
                                 [h.cur EXCEPT !.choiceMessageId = choiceMessageId])
       /\ Finish(i)
       /\ UNCHANGED <<currentMessageIndex, messageQueue, env, effects, history>>

\* ctx.reply threw: the error leaves the handler (bot.catch logs it)
ReplyFailed(i) ==
    /\ handlers[i].pc = "reply"
    /\ Throws
    /\ Finish(i)
    /\ UNCHANGED <<botState, env, effects, history>>

\* ---------------------------------------------------- sendMessageToAdmin
\* the handler h after showNextMessageToAdmin / sendToAdmin returned: a
\* choice handler answers the callback and is over, an admin handler is
\* about to delete the review post
AfterAdminSend(h) ==
    IF h.kind = "choice" THEN Idle
    ELSE [Final("admin", "delete") EXCEPT !.msg = h.msg]

\* sendMessageToAdmin awaits a send for media or non-empty text
SendsToAdmin(message) == HasMedia(message) \/ message.text # Absent

\* showNextMessageToAdmin up to its await: the record at the current index
\* is read now and sent to the admin
showNextMessageToAdmin(i, h, queue, index) ==
    IF Len(queue) = 0
    THEN Become(i, AfterAdminSend(h))
    ELSE IF SendsToAdmin(At(queue, index))
         THEN Become(i, [Final(h.kind, "present") EXCEPT
                            !.msg = h.msg, !.shown = At(queue, index)])
         ELSE Become(i, AfterAdminSend(h))

\* the review post with the three buttons reached the admin
Presented(i) ==
    LET h == handlers[i]
        k == KeyOf(h.shown)
    IN /\ h.pc = "present"
       /\ Returns
       /\ presented' = [presented EXCEPT ![k] = @ + 1]
       /\ controls' = controls \cup {<<k, presented[k] + 1>>}
       /\ Become(i, AfterAdminSend(h))
       /\ UNCHANGED <<botState, env, channel, history>>

\* the send threw: sendMessageToAdmin logs the error and returns
PresentFailed(i) ==
    /\ handlers[i].pc = "present"
    /\ Throws
    /\ Become(i, AfterAdminSend(handlers[i]))
    /\ UNCHANGED <<botState, env, effects, history>>

\* ------------------------------------------------------- handleUserChoice
\* messageQueue.push(finalMessage)
pushFinal(queue, finalMessage) == Append(queue, finalMessage)

HandleUserChoice_dropsPrompt(i, u, mid, choice) ==
    /\ FreeSlot(i)
    /\ ~Has(pendingMessages, TempKey(u, mid))
    /\ Become(i, Final("choice", "answer_not_found"))
    /\ pendingMessages' = Delete(pendingMessages, ChoiceKey(mid))
    /\ UNCHANGED <<currentMessageIndex, messageQueue, env, failures, effects,
                   history>>

\* the synchronous start of handleUserChoice for "user_choice:<choice>:<mid>"
HandleUserChoice(i, u, mid, choice) ==
    LET tempKey == TempKey(u, mid)
        start == [Idle EXCEPT !.kind = "choice", !.from = u, !.mid = mid]
    IN /\ FreeSlot(i)
       /\ IF ~Has(pendingMessages, tempKey)
          THEN /\ Become(i, Final("choice", "answer_not_found"))
               /\ UNCHANGED <<botState, history>>
          ELSE LET tempMessage == pendingMessages[tempKey]
               IN CASE choice = "cancel" ->
                         /\ Become(i, [start EXCEPT !.pc = "cancel_edit"])
                         /\ UNCHANGED <<botState, history>>
                    [] choice \in {"with_name", "anonymous"} ->
                         LET finalMessage == FinalMessage(tempMessage, choice)
                             queue == pushFinal(messageQueue, finalMessage)
                             messageIndex == Len(queue) - 1
                         IN /\ messageQueue' = queue
                            /\ pendingMessages' =
                                 Delete(Delete(Set(pendingMessages,
                                                   IndexKey(messageIndex),
                                                   finalMessage),
                                               tempKey),
                                        ChoiceKey(mid))
                            /\ resolved' = Append(resolved, <<u, mid>>)
                            /\ UNCHANGED <<skipped, notices>>
                            /\ Become(i, [start EXCEPT !.pc = "choice_edit"])
                            /\ UNCHANGED currentMessageIndex
                    [] OTHER ->
                         /\ Become(i, Final("choice", "answer"))
                         /\ UNCHANGED <<botState, history>>
       /\ UNCHANGED <<env, failures, effects>>

\* answerCbQuery('not found') returned or threw: the handler is over
NotFoundAnswered(i) ==
    /\ handlers[i].pc = "answer_not_found"
    /\ Returns
    /\ Finish(i)
    /\ UNCHANGED <<botState, env, effects, history>>

\* cancel: editMessageText returned; only now is the staging deleted
CancelEdited(i) ==
    LET h == handlers[i]
    IN /\ h.pc = "cancel_edit"
       /\ Returns
       /\ pendingMessages' =
            Delete(Delete(pendingMessages, TempKey(h.from, h.mid)),
                   ChoiceKey(h.mid))
       /\ Finish(i)
       /\ UNCHANGED <<currentMessageIndex, messageQueue, env, effects, history>>

\* cancel: editMessageText threw; the catch block answers with an error
CancelEditFailed(i) ==
    /\ handlers[i].pc = "cancel_edit"
    /\ Throws
    /\ Become(i, Caught(handlers[i]))
    /\ UNCHANGED <<botState, env, effects, history>>

\* with_name / anonymous: the acknowledgment edit returned; the record is
\* shown to the admin when the queue holds exactly one record now
ChoiceEdited(i) ==
    /\ handlers[i].pc = "choice_edit"
    /\ Returns
    /\ IF Len(messageQueue) = 1
       THEN showNextMessageToAdmin(i, handlers[i], messageQueue,
                                   currentMessageIndex)
       ELSE Finish(i)
    /\ UNCHANGED <<botState, env, effects, history>>

\* the acknowledgment edit threw: the catch block answers with an error
ChoiceEditFailed(i) ==
    /\ handlers[i].pc = "choice_edit"
    /\ Throws
    /\ Become(i, Caught(handlers[i]))
    /\ UNCHANGED <<botState, env, effects, history>>

\* an unknown choice: the final ctx.answerCbQuery() is the only call
Answered(i) ==
    /\ handlers[i].pc = "answer"
    /\ Returns
    /\ Finish(i)
    /\ UNCHANGED <<botState, env, effects, history>>

\* answerCbQuery('error') of a catch block returned or threw
ErrorAnswered(i) ==
    /\ handlers[i].pc = "answer_error"
    /\ Returns
    /\ Finish(i)
    /\ UNCHANGED <<botState, env, effects, history>>

\* ---------------------------------------------------- handleAdminCallback
moveToNextMessage_clearsMap(i, h) ==
    LET queue == Splice(messageQueue, currentMessageIndex)
    IN /\ pendingMessages' =
            IF Len(queue) = 0 THEN <<>>
            ELSE Delete(pendingMessages, IndexKey(currentMessageIndex))
       /\ messageQueue' = queue
       /\ IF Len(queue) = 0
          THEN /\ currentMessageIndex' = 0
               /\ Become(i, AfterAdminSend(h))
          ELSE /\ UNCHANGED currentMessageIndex
               /\ showNextMessageToAdmin(i, h, queue, currentMessageIndex)

\* moveToNextMessage up to its await, for the handler h in slot i
moveToNextMessage(i, h) ==
    LET queue == Splice(messageQueue, currentMessageIndex)
    IN /\ pendingMessages' =
            Delete(pendingMessages, IndexKey(currentMessageIndex))
       /\ messageQueue' = queue
       /\ IF Len(queue) = 0
          THEN /\ currentMessageIndex' = 0
               /\ Become(i, AfterAdminSend(h))
          ELSE /\ UNCHANGED currentMessageIndex
               /\ showNextMessageToAdmin(i, h, queue, currentMessageIndex)

\* the synchronous start of handleAdminCallback for an admin_* token pressed
\* by fromId on the review post msg (the history variable skipped is set by
\* the specification that takes the step)
HandleAdminCallback(i, fromId, token, msg) ==
    LET start == [Idle EXCEPT !.kind = "admin", !.from = fromId,
                              !.arg = token, !.msg = msg]
        currentMessage == At(messageQueue, currentMessageIndex)
    IN /\ FreeSlot(i)
       /\ IF ~isAdmin(fromId)
          THEN /\ Become(i, Final("admin", "answer_denied"))
               /\ UNCHANGED botState
          ELSE CASE token = "admin_approve" ->
                      /\ Become(i,
                           IF currentMessage = NoRec
                           THEN [start EXCEPT !.pc = "answer_no_message"]
                           ELSE IF ~channelId
                           THEN Caught([start EXCEPT !.cur = currentMessage])
                           ELSE IF SendsToChannel(currentMessage)
                           THEN [start EXCEPT !.pc = "publish",
                                              !.cur = currentMessage]
                           ELSE [start EXCEPT !.pc = "notify",
                                              !.cur = currentMessage])
                      /\ UNCHANGED botState
                 [] token = "admin_reject" ->
                      /\ Become(i,
                           IF currentMessage = NoRec
                           THEN [start EXCEPT !.pc = "answer_no_message"]
                           ELSE [start EXCEPT !.pc = "notify",
                                              !.cur = currentMessage])
                      /\ UNCHANGED botState
                 [] token = "admin_skip" ->
                      moveToNextMessage(i, start)
       /\ UNCHANGED <<env, failures, effects, resolved, notices>>

\* answerCbQuery('no rights') returned or threw: the handler is over
DeniedAnswered(i) ==
    /\ handlers[i].pc = "answer_denied"
    /\ Returns
    /\ Finish(i)
    /\ UNCHANGED <<botState, env, effects, history>>

\* handleApprove / handleReject found no current message and answered
NoMessageAnswered(i) ==
    /\ handlers[i].pc = "answer_no_message"
    /\ Returns
    /\ Become(i, AfterAdminSend(handlers[i]))
    /\ UNCHANGED <<botState, env, effects, history>>

\* that answer threw: the catch block of handleAdminCallback answers
NoMessageAnswerFailed(i) ==
    /\ handlers[i].pc = "answer_no_message"
    /\ Throws
    /\ Become(i, Caught(handlers[i]))
    /\ UNCHANGED <<botState, env, effects, history>>

\* publishToChannel: the channel send returned
Published(i) ==
    LET h == handlers[i]
    IN /\ h.pc = "publish"
       /\ Returns
       /\ channel' = Append(channel, ChannelPost(h.cur))
       /\ Become(i, [h EXCEPT !.pc = "notify"])
       /\ UNCHANGED <<botState, env, presented, controls, history>>

PublishFailed_dropsHead(i) ==
    /\ handlers[i].pc = "publish"
    /\ Throws
    /\ moveToNextMessage(i, handlers[i])
    /\ UNCHANGED <<env, effects, history>>

\* the channel send threw: publishToChannel and handleApprove rethrow,
\* handleAdminCallback catches and answers with an error
PublishFailed(i) ==
    /\ handlers[i].pc = "publish"
    /\ Throws
    /\ Become(i, Caught(handlers[i]))
    /\ UNCHANGED <<botState, env, effects, history>>

\* notifyUser returned: the notice reached the submitter; next record (the
\* history variable notices is set by the specification that takes the step)
Notified(i) ==
    /\ handlers[i].pc = "notify"
    /\ Returns
    /\ moveToNextMessage(i, handlers[i])
    /\ UNCHANGED <<env, effects, resolved, skipped>>

NotifyFailed_aborts(i) ==
    /\ handlers[i].pc = "notify"
    /\ Throws
    /\ Become(i, Caught(handlers[i]))
    /\ UNCHANGED <<botState, env, effects, resolved, skipped>>

\* notifyUser swallowed the error of its send; next record
NotifyFailed(i) ==
    /\ handlers[i].pc = "notify"
    /\ Throws
    /\ moveToNextMessage(i, handlers[i])
    /\ UNCHANGED <<env, effects, resolved, skipped>>

\* ctx.deleteMessage removed the review post the button was pressed on
Deleted(i) ==
    LET h == handlers[i]
    IN /\ h.pc = "delete"
       /\ h.msg \in controls
       /\ Returns
       /\ controls' = controls \ {h.msg}
       /\ Finish(i)
       /\ UNCHANGED <<botState, env, channel, presented, history>>

\* ctx.deleteMessage threw and the error was logged: the post is already
\* gone, or the call failed
DeleteFailed(i) ==
    /\ handlers[i].pc = "delete"
    /\ IF handlers[i].msg \in controls THEN Throws ELSE Returns
    /\ Finish(i)
    /\ UNCHANGED <<botState, env, effects, history>>

\* ------------------------------------------------------------------- spec
Next ==
    \/ \E i \in Slots, u \in UserIds, mid \in MsgIds :
          HandleUserMessage(i, u, MessageOf(u, mid))
    \/ \E i \in Slots, id \in ChoiceMessageIds : ReplySent(i, id)
    \/ \E i \in Slots : ReplyFailed(i)
    \/ \E i \in Slots, u \in UserIds, mid \in MsgIds, choice \in Choices :
          HandleUserChoice(i, u, mid, choice)
    \/ \E i \in Slots : NotFoundAnswered(i)
    \/ \E i \in Slots : CancelEdited(i)
    \/ \E i \in Slots : CancelEditFailed(i)
    \/ \E i \in Slots : ChoiceEdited(i)
    \/ \E i \in Slots : ChoiceEditFailed(i)
    \/ \E i \in Slots : Presented(i)
    \/ \E i \in Slots : PresentFailed(i)
    \/ \E i \in Slots : Answered(i)
    \/ \E i \in Slots : ErrorAnswered(i)
    \/ \E i \in Slots, msg \in controls, token \in AdminTokens :
          HandleAdminCallback(i, ADMIN_ID, token, msg) /\ UNCHANGED skipped
    \/ \E i \in Slots, u \in UserIds, token \in AdminTokens :
          HandleAdminCallback(i, u, token, NoMsg) /\ UNCHANGED skipped
    \/ \E i \in Slots : DeniedAnswered(i)
    \/ \E i \in Slots : NoMessageAnswered(i)
    \/ \E i \in Slots : NoMessageAnswerFailed(i)
    \/ \E i \in Slots : Published(i)
    \/ \E i \in Slots : PublishFailed(i)
    \/ \E i \in Slots : Notified(i) /\ UNCHANGED notices
    \/ \E i \in Slots : NotifyFailed(i) /\ UNCHANGED notices
    \/ \E i \in Slots : Deleted(i)
    \/ \E i \in Slots : DeleteFailed(i)

Spec == Init /\ [][Next]_vars

\* ------------------------------------------------------------ review phase
\* The state after the records recs were queued one after the other while
\* the administrator did nothing: every choice handler has returned, the
\* first record was shown when the queue had length 1.
Queued(recs) ==
    /\ currentMessageIndex = 0
    /\ pendingMessages =
         [k \in {IndexKey(n - 1) : n \in 1..Len(recs)} |-> recs[k[2] + 1]]
    /\ messageQueue = recs
    /\ channelId = TRUE
    /\ handlers = [i \in Slots |-> Idle]
    /\ sent = {KeyOf(recs[n]) : n \in 1..Len(recs)}
    /\ failures = 0
    /\ channel = <<>>
    /\ presented = [k \in Keys |-> IF k = KeyOf(recs[1]) THEN 1 ELSE 0]
    /\ controls = {<<KeyOf(recs[1]), 1>>}
    /\ resolved = [n \in 1..Len(recs) |-> KeyOf(recs[n])]
    /\ skipped = {}
    /\ notices = {}

ReviewQueueLen == 3     \* records queued when the review phase starts

\* the n-th submission, resolved with_name by submitter 1 and anonymous by 2
ReviewRecord(n) ==
    LET u == SubmissionOrder[n][1]
        mid == SubmissionOrder[n][2]
    IN FinalMessage(TempMessage(FromOf(u), MessageOf(u, mid)),
                    IF u = 1 THEN "with_name" ELSE "anonymous")

InitReview == Queued([n \in 1..ReviewQueueLen |-> ReviewRecord(n)])

\* the key of the record a step with this token removes as a skip
Skips(token) ==
    IF token = "admin_skip" /\ Len(messageQueue) > 0
    THEN {KeyOf(At(messageQueue, currentMessageIndex))} ELSE {}

\* the status message the handler h sends with notifyUser: the submitter,
\* the decision it reports, and whether the send delivered it
Notice(h, delivered) ==
    [to |-> h.cur.userId, key |-> KeyOf(h.cur), about |-> h.arg,
     delivered |-> delivered]

\* the administrator's button presses and the handlers they start
NextReview ==
    \/ \E i \in Slots, msg \in controls, token \in AdminTokens :
          /\ HandleAdminCallback(i, ADMIN_ID, token, msg)
          /\ skipped' = skipped \cup Skips(token)
    \/ \E i \in Slots : NoMessageAnswered(i)
    \/ \E i \in Slots : NoMessageAnswerFailed(i)
    \/ \E i \in Slots : Published(i)
    \/ \E i \in Slots : PublishFailed(i)
    \/ \E i \in Slots :
          Notified(i) /\ notices' = notices \cup {Notice(handlers[i], TRUE)}
    \/ \E i \in Slots :
          NotifyFailed(i) /\ notices' = notices \cup {Notice(handlers[i], FALSE)}
    \/ \E i \in Slots : Presented(i)
    \/ \E i \in Slots : PresentFailed(i)
    \/ \E i \in Slots : Deleted(i)
    \/ \E i \in Slots : DeleteFailed(i)
    \/ \E i \in Slots : ErrorAnswered(i)

SpecReview == InitReview /\ [][NextReview]_vars

\* --------------------------------------------------------- publish content
\* publishToChannel over the records one submission can become: display
\* names, handles, texts and captions with and without the characters
\* escapeHTML rewrites, text and the four media kinds, both publish modes
PubNames == {<<"Bob">>, <<"Alice">>, <<"A", "&", "<", "B", ">">>}
PubHandles == {Absent, <<"bobby">>}
PubTexts == {<<"Hi">>, <<"Hello">>, <<"1", "<", "2", "&", "3", ">", "2">>}
PubCaptions == {Absent, <<"Cap">>, <<"x", "&", "y">>}

PubUsers ==
    {[id |-> 1, first_name |-> n, username |-> h] :
        n \in PubNames, h \in PubHandles}
PubMessages ==
    {TextMessage(1, t) : t \in PubTexts} \cup
    {MediaMessage(1, k, c) : k \in MediaKinds, c \in PubCaptions}

InitPub ==
    \E user \in PubUsers, message \in PubMessages,
       choice \in {"with_name", "anonymous"} :
        Queued(<<FinalMessage(TempMessage(user, message), choice)>>)

\* the administrator approves the record; the channel send returns
NextPub ==
    \/ \E i \in Slots, msg \in controls :
          HandleAdminCallback(i, ADMIN_ID, "admin_approve", msg)
             /\ UNCHANGED skipped
    \/ \E i \in Slots : Published(i)

SpecPub == InitPub /\ [][NextPub]_vars

\* ================================================================== claims
Range(seq) == {seq[n] : n \in 1..Len(seq)}
InFlight == {handlers[i] : i \in Slots} \ {Idle}
IsPrefix(p, s) == Len(p) <= Len(s) /\ SubSeq(s, 1, Len(p)) = p
EndsWith(s, e) == Len(e) <= Len(s) /\ SubSeq(s, Len(s) - Len(e) + 1, Len(s)) = e
Occurs(w, s) ==
    \E n \in 0..(Len(s) - Len(w)) : SubSeq(s, n + 1, n + Len(w)) = w
Resolutions == {"with_name", "anonymous"}

\* ---- C1 ----------------------------------------------------------------
C1_QueuedAreResolved ==
    \A n \in 1..Len(messageQueue) :
        /\ messageQueue[n].publishType \in Resolutions
        /\ KeyOf(messageQueue[n]) \in sent

C1_OnlyAResolutionAppends ==
    messageQueue' # messageQueue =>
       /\ Len(messageQueue') > Len(messageQueue) =>
            \E i \in Slots, u \in UserIds, mid \in MsgIds,
               choice \in Resolutions :
               /\ HandleUserChoice(i, u, mid, choice)
               /\ Has(pendingMessages, TempKey(u, mid))
               /\ pendingMessages[TempKey(u, mid)].userId = u
               /\ Len(messageQueue') = Len(messageQueue) + 1
               /\ SubSeq(messageQueue', 1, Len(messageQueue)) = messageQueue
               /\ LET rec == messageQueue'[Len(messageQueue')]
                  IN /\ KeyOf(rec) = <<u, mid>>
                     /\ rec.publishType = choice
       /\ ~ \E i \in Slots, u \in UserIds, mid \in MsgIds :
               HandleUserMessage(i, u, MessageOf(u, mid))
       /\ ~ \E i \in Slots, id \in ChoiceMessageIds :
               ReplySent(i, id) \/ ReplyFailed(i)
       /\ ~ \E i \in Slots, u \in UserIds, mid \in MsgIds,
               choice \in Choices \ Resolutions :
               HandleUserChoice(i, u, mid, choice)
       /\ ~ \E i \in Slots :
               CancelEdited(i) \/ CancelEditFailed(i) \/ Answered(i)

\* C1: every queued record has publish mode with_name or anonymous (never
\* pending) and stems from a sent submission; the queue grows only in the
\* step that handles a with_name / anonymous choice of the submitter who
\* staged the record, by exactly that record at the tail; no step of a
\* content-message handler, of a cancel or of a choice token that is
\* neither changes the queue.
C1_NoRecordWithoutResolution ==
    [](C1_QueuedAreResolved) /\ [][C1_OnlyAResolutionAppends]_vars

\* a named and then an anonymous resolution have each queued their record
C1_BothModesQueued ==
    /\ Len(messageQueue) = 2
    /\ messageQueue[1].publishType = "with_name"
    /\ messageQueue[2].publishType = "anonymous"

\* ---- C2 ----------------------------------------------------------------
\* C2: FIFO presentation: when a submission has been presented to the
\* administrator, every submission resolved before it has been presented
\* too (S1 resolved before S2 implies S1 presented before S2).
C2_PresentedInResolutionOrder ==
    \A j, k \in 1..Len(resolved) :
        (j < k /\ presented[resolved[k]] > 0) => presented[resolved[j]] > 0

\* ---- C3 ----------------------------------------------------------------
\* C3: when no handler is running, every review post whose buttons are live
\* shows the record at the head of the queue (at most one record is under
\* review, and it is the head).
C3_LiveControlsAreForTheHead ==
    InFlight = {} =>
        \A c \in controls :
            /\ Len(messageQueue) > 0
            /\ c[1] = KeyOf(messageQueue[1])

\* ---- C4 ----------------------------------------------------------------
C4_NonAdminToken ==
    \E i \in Slots, u \in UserIds, token \in AdminTokens :
        HandleAdminCallback(i, u, token, NoMsg)

C4_Step ==
    /\ C4_NonAdminToken =>
         /\ UNCHANGED <<botState, effects>>
         /\ Range(handlers') \subseteq
              Range(handlers) \cup {Final("admin", "answer_denied")}
    /\ (\E i \in Slots : DeniedAnswered(i)) =>
         /\ UNCHANGED <<botState, effects>>
         /\ Range(handlers') \subseteq Range(handlers) \cup {Idle}

\* C4: an admin_approve / admin_reject / admin_skip token from an identity
\* other than the administrator leaves the queue, the staging map, the
\* channel and the review posts unchanged, whatever the queue holds; the
\* handler it starts awaits nothing but the refusal answer and then ends, so
\* it sends no notice and presents nothing.
C4_NonAdminChangesNothing == [][C4_Step]_vars

\* a refusal is pending while a record is queued and under review
C4_DeniedWhileUnderReview ==
    /\ \E i \in Slots : handlers[i].pc = "answer_denied"
    /\ Len(messageQueue) > 0
    /\ controls # {}

\* ---- C5 ----------------------------------------------------------------
\* C5: a submission whose cancel choice has been handled (its handler is
\* suspended at the acknowledgment edit) is never queued.
C5_CancelledNeverQueued ==
    \A i \in Slots :
        handlers[i].pc = "cancel_edit" =>
            <<handlers[i].from, handlers[i].mid>> \notin Range(resolved)

\* ---- C6 ----------------------------------------------------------------
\* C6: no record is posted to the destination channel more than once.
C6_PostedAtMostOnce ==
    \A m, n \in 1..Len(channel) : channel[m].key = channel[n].key => m = n

\* ---- C7 ----------------------------------------------------------------
\* C7: a record that a skip decision removed is never posted to the
\* destination channel afterwards.
C7_SkippedNeverPublished ==
    [][\A i \in Slots :
          Published(i) => KeyOf(handlers[i].cur) \notin skipped]_vars

\* ---- C8 ----------------------------------------------------------------
\* the attribution line of a record, as it is rendered in an HTML post
C8_Attribution(rec) ==
    escapeHTML(<<"Ot: ">> \o rec.userName \o
               (IF rec.username # Absent
                THEN <<" (@">> \o rec.username \o <<")">> ELSE <<>>))

\* the submitter's own text: the caption of media, else the text
C8_Content(rec) ==
    IF rec.media.type # "none" THEN rec.media.caption ELSE rec.text

C8_PostOf(post, rec) ==
    /\ post.method = rec.contentType
    /\ rec.publishType = "with_name" =>
         /\ IsPrefix(C8_Attribution(rec), post.body)
         /\ rec.username = Absent =>
              post.body[Len(C8_Attribution(rec)) + 1] # " (@"
    /\ rec.publishType = "anonymous" =>
         /\ IsPrefix(escapeHTML(C8_Content(rec)), post.body)
         /\ ~Occurs(<<"Ot: ">>, post.body)
         /\ ~Occurs(escapeHTML(rec.userName), post.body)
         /\ rec.username # Absent => ~Occurs(rec.username, post.body)

\* C8: the post of a with_name record begins with the attribution line made
\* of the display name, followed by " (@handle)" exactly when the submitter
\* has a handle; the post of an anonymous record begins with the submitter's
\* text or caption and holds neither the attribution prefix nor the display
\* name nor the handle; a text is sent as text and each media kind as that
\* kind, with or without a caption.
C8_AttributionFollowsTheMode ==
    \A n \in 1..Len(channel), m \in 1..Len(messageQueue) :
        channel[n].key = KeyOf(messageQueue[m]) =>
            C8_PostOf(channel[n], messageQueue[m])

\* Bob (handle bobby) sent the text "Hi" with his name and it was posted
C8_BobNamedPosted ==
    \E n \in 1..Len(channel) :
        /\ channel[n].method = "text"
        /\ IsPrefix(<<"Ot: ", "Bob", " (@", "bobby", ")", "\n\n", "Hi">>,
                    channel[n].body)

\* ---- C9 ----------------------------------------------------------------
\* C9: every post ends with the signature as unescaped markup, after the
\* escaped text of the submitter.
C9_SignatureIsIntact ==
    \A n \in 1..Len(channel) : EndsWith(channel[n].body, signature)

\* ---- C10 ---------------------------------------------------------------
C10_ApproveAt(h, pcs) ==
    h.kind = "admin" /\ h.arg = "admin_approve" /\ h.pc \in pcs

\* an approve handler reaches the notice (and the removal after it) only
\* with its post delivered to the channel
C10_NoticeOnlyAfterThePost ==
    \A h \in InFlight :
        C10_ApproveAt(h, {"notify"}) =>
            \E n \in 1..Len(channel) : channel[n].key = KeyOf(h.cur)

C10_Step ==
    /\ \A i \in Slots :
          PublishFailed(i) =>
             /\ UNCHANGED <<botState, effects>>
             /\ Caught(handlers[i]) \in Range(handlers')
             /\ Range(handlers') \subseteq
                  Range(handlers) \cup {Caught(handlers[i]), Idle}
    /\ (/\ ~channelId
        /\ Len(messageQueue) > 0
        /\ \E i \in Slots, msg \in controls :
              HandleAdminCallback(i, ADMIN_ID, "admin_approve", msg)) =>
          /\ UNCHANGED <<botState, effects>>
          /\ \E h \in Range(handlers') :
                /\ C10_ApproveAt(h, {"answer_error"})
                /\ h.cur = messageQueue[1]
          /\ \A h \in Range(handlers') \ Range(handlers) :
                C10_ApproveAt(h, {"answer_error"})
    /\ \A i \in Slots :
          (C10_ApproveAt(handlers[i], {"answer_error"}) /\ ErrorAnswered(i)) =>
             /\ UNCHANGED <<botState, effects>>
             /\ Range(handlers') \subseteq Range(handlers) \cup {Idle}

\* C10: when the channel is not configured or the channel send throws, the
\* error reaches the catch block of handleAdminCallback (the handler awaits
\* only the error answer and then ends), the queue, the staging map, the
\* channel and the review posts are left as they were, so the record is
\* still the head for a retried approve, and no approve handler reaches the
\* notice or the removal of the head without its post in the channel.
C10_FailedPublishKeepsTheHead ==
    [](C10_NoticeOnlyAfterThePost) /\ [][C10_Step]_vars

\* the channel send of an approve threw: its record is still the head, with
\* its review post live for a retry
C10_FailedApproveHeadKept ==
    \E h \in InFlight :
        /\ channelId
        /\ C10_ApproveAt(h, {"answer_error"})
        /\ Len(messageQueue) > 0
        /\ h.cur = messageQueue[1]
        /\ \E c \in controls : c[1] = KeyOf(h.cur)


\* ------------------------------------------------------------------- C11
\* what the step that ends the await of notifyUser does, delivered or not:
\* the head leaves the queue, the handler goes on to show the new head (or,
\* the queue being empty, to the all-done notice and the removal of its
\* review post), and nothing enters the catch block
C11_Step ==
    /\ messageQueue' =
          IF messageQueue = <<>> THEN <<>> ELSE Tail(messageQueue)
    /\ \E h \in Range(handlers') :
          /\ h.kind = "admin"
          /\ IF messageQueue' = <<>>
             THEN h.pc = "delete"
             ELSE h.pc = "present" /\ h.shown = messageQueue'[1]
    /\ \A h \in Range(handlers') :
          h.pc = "answer_error" => h \in Range(handlers)
    /\ UNCHANGED <<channel, controls>>

\* C11: the notice to the submitter may be lost, the decision stands: after
\* a reject, and after an approve whose post reached the channel, the step
\* that ends notifyUser removes the head and goes on to present the new
\* head (or the all-done notice), whether the notice was delivered or not.
C11_LostNoticeKeepsTheDecision ==
    [][\A i \in Slots : (Notified(i) \/ NotifyFailed(i)) => C11_Step]_vars

\* the notice about an approved record was lost: its post is in the channel,
\* the record has left the queue and the next record is being presented
C11_LostNoticeNextShown ==
    \E n \in notices :
        /\ ~n.delivered
        /\ n.about = "admin_approve"
        /\ \E p \in 1..Len(channel) : channel[p].key = n.key
        /\ \A q \in 1..Len(messageQueue) : KeyOf(messageQueue[q]) # n.key
        /\ Len(messageQueue) > 0
        /\ \E h \in InFlight : h.pc = "present" /\ h.shown = messageQueue[1]


\* ------------------------------------------------------------------- C12
\* a choice event of u about the source message mid finds nothing staged
C12_NothingStaged(u, mid) == ~Has(pendingMessages, TempKey(u, mid))

\* the effect of such an event: only the not-found answer is awaited
C12_OnlyTheAnswer ==
    /\ UNCHANGED <<botState, effects, resolved>>
    /\ Range(handlers') \ Range(handlers) \subseteq
          {Final("choice", "answer_not_found")}

C12_Step ==
    /\ \/ C12_OnlyTheAnswer
       \/ \A u \in UserIds, mid \in MsgIds :
             C12_NothingStaged(u, mid) =>
                \A choice \in Choices, i \in Slots :
                   ~HandleUserChoice(i, u, mid, choice)
    /\ \A i \in Slots :
          (handlers[i].pc = "answer_not_found" /\ NotFoundAnswered(i)) =>
             /\ UNCHANGED <<botState, effects, resolved>>
             /\ Range(handlers') \subseteq Range(handlers) \cup {Idle}

\* C12: a choice event whose key <user id, source message id> has nothing
\* staged (a choice by another submitter for somebody's source message id
\* included) only awaits the not-found answer: the staging map, the queue
\* and the index are left as they were and nothing is shown to the admin,
\* at the start of the handler and when its answer ends.
C12_UnknownKeyChangesNothing == [][C12_Step]_vars

\* a not-found answer is pending while submitter 1 has a submission staged
\* with its prompt, which submitter 2 has no staging for, and a record is
\* under review
C12_NotFoundBesideStaging ==
    /\ \E h \in InFlight : h = Final("choice", "answer_not_found")
    /\ \E mid \in MsgIds :
          /\ Has(pendingMessages, TempKey(1, mid))
          /\ Has(pendingMessages, ChoiceKey(mid))
          /\ ~Has(pendingMessages, TempKey(2, mid))
    /\ Len(messageQueue) > 0
    /\ controls # {}


\* ------------------------------------------------------------------- C13
\* what a decision taken on an empty queue does: nothing is queued, the
\* staging map and the channel are as before, and the handler it starts
\* awaits neither a channel send nor a notice to a submitter
C13_NoOp ==
    /\ messageQueue' = <<>>
    /\ UNCHANGED <<pendingMessages, channel>>
    /\ \A h \in Range(handlers') \ Range(handlers) :
          h.kind = "admin" /\ h.pc \in {"answer_no_message", "delete"}

C13_Step ==
    /\ messageQueue = <<>> =>
          \/ C13_NoOp
          \/ \A token \in AdminTokens, msg \in controls, i \in Slots :
                ~HandleAdminCallback(i, ADMIN_ID, token, msg)
    /\ \A i \in Slots :
          (/\ handlers[i].pc = "answer_no_message"
           /\ NoMessageAnswered(i) \/ NoMessageAnswerFailed(i)) =>
             /\ UNCHANGED <<botState, channel>>
             /\ \A h \in Range(handlers') \ Range(handlers) :
                   h.pc \in {"delete", "answer_error"}

\* C13: approve, reject and skip pressed while the queue is empty change
\* nothing: the queue stays empty, the staging map is the same, nothing is
\* posted to the channel and no submitter is notified; the handler only
\* answers (approve, reject) or sends the all-done notice (skip) and then
\* removes the review post the button was on.
C13_DecisionOnEmptyQueueIsNoOp == [][C13_Step]_vars

\* a decision pressed on a review post that outlived its record is being
\* answered with "no message" while a submission is staged
C13_NoMessageBesideStaging ==
    /\ messageQueue = <<>>
    /\ \E h \in InFlight : h.kind = "admin" /\ h.pc = "answer_no_message"
    /\ \E u \in UserIds, mid \in MsgIds :
          Has(pendingMessages, TempKey(u, mid))


\* ------------------------------------------------------------------- C14
\* C14: an accepted decision removes the head before any of its network
\* effects: no approve or reject handler is suspended at its channel send
\* or at its notice to the submitter while the record it decided on is
\* still the head of the queue.
C14_HeadRemovedBeforeEffects ==
    \A h \in InFlight :
        (h.kind = "admin" /\ h.pc \in {"publish", "notify"}) =>
            ~(Len(messageQueue) > 0 /\ messageQueue[1] = h.cur)


\* ------------------------------------------------------------------- C15
\* C15: the first resolution of a run takes the queue from empty to one
\* record; once every handler has returned, and no awaited call has thrown,
\* that record has been presented to the administrator exactly once,
\* whatever was handled while its handler awaited the acknowledgment.
C15_FirstRecordPresentedOnce ==
    (InFlight = {} /\ failures = 0 /\ Len(resolved) > 0) =>
        presented[resolved[1]] = 1


\* ------------------------------------------------------------------- C16
\* C16: a staged key <submitter id, source message id> gives at most one
\* review record: no key was queued twice, whatever choice events were
\* handled for it and however they interleaved, and no two records of the
\* queue come from one key.
C16_OneRecordPerKey ==
    /\ \A a, b \in 1..Len(resolved) : resolved[a] = resolved[b] => a = b
    /\ \A a, b \in 1..Len(messageQueue) :
          KeyOf(messageQueue[a]) = KeyOf(messageQueue[b]) => a = b

\* a second choice event is answered not found while the handler that
\* queued the first record is still awaiting its acknowledgment: the key
\* of that record has no staging any more
C16_RepeatedChoiceNotFound ==
    /\ Len(resolved) = 1
    /\ ~Has(pendingMessages, TempKey(resolved[1][1], resolved[1][2]))
    /\ \E h \in InFlight :
          h.pc = "choice_edit" /\ <<h.from, h.mid>> = resolved[1]
    /\ \E h \in InFlight : h = Final("choice", "answer_not_found")
    /\ Len(messageQueue) = 1


\* ------------------------------------------------------------------- C17
\* C17: a decision removes the record it was taken on: every record that
\* has left the queue was skipped, or is the record an approve or reject
\* handler read as head and sent its notice about.
C17_RemovedWereDecided ==
    \A k \in Range(resolved) :
        (\A q \in 1..Len(messageQueue) : KeyOf(messageQueue[q]) # k) =>
            \/ k \in skipped
            \/ \E n \in notices : n.key = k


\* ------------------------------------------------------------------- C18
\* C18: the review never stalls: whenever records are queued and every
\* handler has returned, the administrator holds a live review post for
\* the head of the queue, also after sends have failed.
C18_HeadAlwaysUnderReview ==
    (InFlight = {} /\ Len(messageQueue) > 0) =>
        \E c \in controls : c[1] = KeyOf(messageQueue[1])


\* ------------------------------------------------------------------- C19
\* the submission of u with source message id mid is staged and the prompt
\* bookkeeping under the choice key of mid is the one linked to it
C19_StagedWithPrompt(u, mid) ==
    /\ Has(pendingMessages, TempKey(u, mid))
    /\ Has(pendingMessages, ChoiceKey(mid))
    /\ pendingMessages[ChoiceKey(mid)].userId = u

\* the step is the promotion of the key, or the end of its cancel
C19_OwnResolution(u, mid) ==
    \/ resolved' = Append(resolved, <<u, mid>>)
    \/ \E h \in InFlight :
          h.pc = "cancel_edit" /\ h.from = u /\ h.mid = mid

C19_Step ==
    \A u \in UserIds, mid \in MsgIds :
        /\ Has(pendingMessages, TempKey(u, mid)) =>
              \/ /\ Has(pendingMessages', TempKey(u, mid))
                 /\ pendingMessages'[TempKey(u, mid)] =
                       pendingMessages[TempKey(u, mid)]
              \/ C19_OwnResolution(u, mid)
        /\ C19_StagedWithPrompt(u, mid) =>
              \/ /\ Has(pendingMessages', ChoiceKey(mid))
                 /\ pendingMessages'[ChoiceKey(mid)] =
                       pendingMessages[ChoiceKey(mid)]
              \/ C19_OwnResolution(u, mid)

\* C19: a staged submission and the prompt bookkeeping linked to it are
\* removed or replaced only by the cancel or the promotion of their own
\* key: every other step (another submitter's submission or choice, an
\* administrator's decision) leaves both entries as they were, also when
\* two submitters' source message ids are equal.
C19_StagingOnlyEndsByOwnResolution == [][C19_Step]_vars


\* ------------------------------------------------------------------- C20
\* the index keys of the staging map, and its keys of staged submissions
C20_IndexKeys == {k \in DOMAIN pendingMessages : k[1] = "index"}
C20_TempKeys == {k \in DOMAIN pendingMessages : k[1] = "temp"}

\* C20: whenever no handler is in flight, the index keys of pendingMessages
\* are exactly 0 .. Len(messageQueue) - 1 and the entry under key n is the
\* record at queue position n; with an empty queue and no submission
\* awaiting a choice the map is empty.  Stated for the runs in which no
\* awaited call has thrown.
C20_IndexKeysMirrorTheQueue ==
    (InFlight = {} /\ failures = 0) =>
        /\ C20_IndexKeys = {IndexKey(n - 1) : n \in 1..Len(messageQueue)}
        /\ \A n \in 1..Len(messageQueue) :
              pendingMessages[IndexKey(n - 1)] = messageQueue[n]
        /\ (Len(messageQueue) = 0 /\ C20_TempKeys = {}) =>
              DOMAIN pendingMessages = {}

====
